---- MODULE Spec2Model ----
(***************************************************************************)
(* A model of the AceAssign front end: the upload pipeline of App          *)
(* (handleFileSelect / reset), the gateway (GeminiService), the editor     *)
(* callbacks of SolutionDisplay and the tutor chat (AITutorChat).          *)
(*                                                                         *)
(* JavaScript values are represented as follows.                           *)
(*   - an object is a record whose DOMAIN is the set of its own fields, so *)
(*     an optional field that is absent is absent from the DOMAIN;         *)
(*   - null (for an object-valued state) is the record NULL;               *)
(*   - a nullable string state (error) is <<>> for null and <<s>> for s;   *)
(*   - a string the code only stores or tests for emptiness is a string;   *)
(*     a string the code transforms (title, input, streamed text) is a     *)
(*     sequence of characters / tokens, so the transformation is computed; *)
(*   - a question id is a record [t, s]: its JavaScript type and String()  *)
(*     of it, so that === and String(a) === String(b) differ.              *)
(* React state updates made in one synchronous block are applied in call   *)
(* order; effects run when the block yields.                               *)
(***************************************************************************)
EXTENDS Integers, Sequences, FiniteSets, TLC

\* ---------------------------------------------------------------- bounds
MaxUploads == 2     \* handleFileSelect invocations in one behaviour
MaxResets == 1      \* reset invocations in one behaviour
MaxTurns == 1       \* accepted handleSend invocations in one behaviour
MaxChunks == 1      \* chunks the response streams of one behaviour deliver
MaxInterrupts == 1  \* clearHistory invocations and editor title edits in one behaviour
MaxUpdates == 2     \* updates applied in one behaviour of the updater alone
MaxEdits == 2       \* editor callbacks applied in one behaviour of the editor alone
MaxTimers == 2      \* setTimeout callbacks of the editor pending at one time

\* ---------------------------------------------------------------- values
NULL == [isNull |-> TRUE]

\* ProcessingStep (enum)
IDLE == "idle"
EXTRACTING == "extracting"
CLASSIFYING == "classifying"
SOLVING == "solving"
COMPLETED == "completed"
ERROR == "error"
ProcessingStep == {IDLE, EXTRACTING, CLASSIFYING, SOLVING, COMPLETED, ERROR}

\* AssignmentType (enum)
THEORY == "theory"
CODING == "coding"
MIXED == "mixed"

StrId(s) == [t |-> "string", s |-> s]
NumId(s) == [t |-> "number", s |-> s]
\* String(x) of an id
String(id) == id.s

Has(o, f) == f \in DOMAIN o
\* JavaScript truthiness of an optional string field / boolean field
TruthyStr(o, f) == Has(o, f) /\ o[f] # ""
TruthyBool(o, f) == Has(o, f) /\ o[f]

\* titles are character sequences
TitleAlgebra == <<"A", " ", "S">>
TitleLab == <<"L", "a", "b">>

QAlgebra ==
  [id |-> StrId("q1"), question_text |-> "Solve x+2=5", solution |-> "x=3",
   explanation |-> "Subtract 2"]
QPrint ==
  [id |-> StrId("1"), question_text |-> "Print a sum", language |-> "python",
   requires_execution |-> TRUE, solution |-> "", code |-> "print(1+1)",
   explanation |-> "Adds"]
QLoop ==
  [id |-> StrId("2"), question_text |-> "Write a loop", requires_execution |-> FALSE,
   solution |-> "", code |-> "for(;;){}", explanation |-> "Loops"]
QEssay ==
  [id |-> StrId("2"), question_text |-> "Explain", requires_execution |-> TRUE,
   solution |-> "Because", explanation |-> "Reasoning"]

DocAlgebra == [title |-> TitleAlgebra, type |-> THEORY, questions |-> <<QAlgebra>>]
DocCoding == [title |-> TitleLab, type |-> CODING, questions |-> <<QPrint, QLoop>>]
DocMixed == [title |-> TitleLab, type |-> MIXED, questions |-> <<QPrint, QEssay>>]

\* objects that conform to the response schema (title, type, questions)
ValidDocs == {DocAlgebra, DocCoding, DocMixed}
\* parsed JSON objects that lack a required field
DocNoTitle == [type |-> THEORY, questions |-> <<QAlgebra>>]
DocNoType == [title |-> TitleAlgebra, questions |-> <<QAlgebra>>]
DocNoQuestions == [title |-> TitleAlgebra, type |-> THEORY]
EmptyObject == [x \in {} |-> TRUE]
InvalidDocs == {DocNoTitle, DocNoType, DocNoQuestions}

SchemaFields == {"title", "type", "questions"}
ConformsToSchema(o) == SchemaFields \subseteq DOMAIN o

\* what generateContent can do for the extraction request:
\*   [kind |-> "reject", message]  the request fails (transport / API error)
\*   [kind |-> "text", text]       a response; text is "" (absent), "garbage"
\*                                 (not JSON) or the JSON text of an object
JsonOf(o) == [json |-> o]
NoText == [none |-> TRUE]
Garbage == [garbage |-> TRUE]
ErrorMessages == {"", "503"}
ExtractionOutcomes ==
  [kind : {"reject"}, message : ErrorMessages]
    \cup [kind : {"text"},
          text : {NoText, Garbage} \cup {JsonOf(o) : o \in ValidDocs \cup InvalidDocs}]

\* simulated terminal output of executeCode's request: "" is an empty response
OutputTexts == {"", "2"}

DefaultError == "An unexpected error occurred during processing."
SyntaxErrorMessage == "Unexpected token"
TypeErrorMessage == "Cannot read properties of undefined (reading 'map')"

Uploads == 1..MaxUploads

VARIABLES
  step, error, result,          \* App: useState step / error / result
  pc,                           \* pc[u]: where invocation u of handleFileSelect is
  assignmentResult,             \* assignmentResult[u]: what processAssignment returned
  pending,                      \* pending[u]: questions whose executeCode is outstanding
  output,                       \* output[u][i]: execution output received for question i
  requests,                     \* requests[u]: gateway calls invocation u has made while it runs
  resets,                       \* number of reset invocations so far
  seen,                         \* seen[u]: values step took from u's selection on
  outcome                       \* outcome[u]: how invocation u ended

VARIABLES
  isOpen, input, messages, isLoading, chatSession,   \* AITutorChat: useState
  storageKey,                   \* the storageKey of the last render
  localStorage,                 \* key -> stored text
  chatPc,                       \* where the running handleSend is
  turnSession,                  \* the chatSession the running handleSend closed over
  fullText, calls,              \* handleSend / processStream locals
  toolCalls, updateSummary, functionResponses,
  chunks,                       \* chunks delivered so far
  turns, sessions,              \* handleSend / startChat invocations so far
  clears, edits,                \* clearHistory invocations / editor edits so far
  docBefore,                    \* result when the running turn's tool round began
  turnChanged,                  \* the running (or last) turn changed result
  lastTurn                      \* how the last finished turn ended

VARIABLES
  copiedId,                     \* SolutionDisplay: useState copiedId (<<>> for null)
  timers,                       \* pending setTimeout callbacks, in the order they were set
  editorCall                    \* the last editor callback invoked, with its arguments

pipelineVars == <<pc, assignmentResult, pending, output, requests, resets, seen,
                  outcome>>
appVars == <<step, error, result, pipelineVars>>
turnVars == <<turnSession, fullText, calls, toolCalls, updateSummary,
              functionResponses, docBefore, turnChanged>>
chatVars == <<isOpen, input, messages, isLoading, chatSession, storageKey,
              localStorage, chatPc, turnVars, chunks, turns, sessions, clears,
              edits, lastTurn>>
editorVars == <<copiedId, timers, editorCall>>
vars == <<appVars, chatVars, editorVars>>

\* ---------------------------------------------------------------- gateway

\* GeminiService.processAssignment: JSON.parse(response.text || "{}").
\* The value is [ok |-> TRUE, value] or [ok |-> FALSE, message] (a throw).
processAssignment(o) ==
  IF o.kind = "reject" THEN [ok |-> FALSE, message |-> o.message]
  ELSE IF o.text = NoText THEN [ok |-> TRUE, value |-> EmptyObject]
  ELSE IF o.text = Garbage THEN [ok |-> FALSE, message |-> SyntaxErrorMessage]
  ELSE [ok |-> TRUE, value |-> o.text.json]

\* GeminiService.executeCode: response.text || "No output."
executeCode(text) == IF text = "" THEN "No output." ELSE text

\* a faulty condition: the test of q.code is missing
NeedsExecutionWithoutCode(doc, q) ==
  TruthyBool(q, "requires_execution") \/ (Has(doc, "type") /\ doc.type = CODING)

\* the condition of handleFileSelect's map callback
NeedsExecution(doc, q) ==
  /\ TruthyStr(q, "code")
  /\ TruthyBool(q, "requires_execution") \/ (Has(doc, "type") /\ doc.type = CODING)

ExecutionSet(doc) ==
  {i \in 1..Len(doc.questions) : NeedsExecution(doc, doc.questions[i])}

\* a faulty finalQuestions: the callbacks share one output variable, so every
\* executed question carries the same output
FinalQuestionsShared(doc, out) ==
  [i \in 1..Len(doc.questions) |->
     IF i \in DOMAIN out
       THEN [execution_output |-> out[CHOOSE j \in DOMAIN out : TRUE]] @@ doc.questions[i]
       ELSE doc.questions[i]]

\* finalQuestions: { ...q, execution_output: output } for the executed ones
FinalQuestions(doc, out) ==
  [i \in 1..Len(doc.questions) |->
     IF i \in DOMAIN out
       THEN [execution_output |-> out[i]] @@ doc.questions[i]
       ELSE doc.questions[i]]

\* err.message || "An unexpected error occurred during processing."
ErrorText(message) == IF message = "" THEN DefaultError ELSE message

\* ---------------------------------------------------------------- App

\* the order of the processing pipeline
StepOrder == <<IDLE, EXTRACTING, CLASSIFYING, SOLVING, COMPLETED>>
IsPrefix(s, t) == Len(s) <= Len(t) /\ s = SubSeq(t, 1, Len(s))

\* seen[u] records the values step takes while invocation u is running, up to
\* and including the first one that departs from StepOrder
RECURSIVE Record(_, _)
Record(s, vals) ==
  IF vals = <<>> \/ ~IsPrefix(s, StepOrder) THEN s
  ELSE Record(Append(s, Head(vals)), Tail(vals))
Log(s, vals) ==
  [u \in Uploads |-> IF pc[u] \notin {"none", "done"} THEN Record(s[u], vals) ELSE s[u]]

\* no gateway call made: processAssignment calls, executeCode calls per question
NoRequests == [processAssignment |-> 0, executeCode |-> <<>>]

\* SolutionDisplay's copy state when it is mounted, and while it is not
NothingCopied == copiedId = <<>> /\ timers = <<>> /\ editorCall = NULL

\* AITutorChat is not mounted: it is rendered (inside SolutionDisplay) only
\* while result is set and step is completed
ChatUnmounted ==
  /\ isOpen = FALSE
  /\ input = <<>>
  /\ messages = <<>>
  /\ isLoading = FALSE
  /\ chatSession = NULL
  /\ storageKey = <<>>
  /\ localStorage = <<>>
  /\ chatPc = "idle"
  /\ turnSession = NULL
  /\ fullText = <<>>
  /\ calls = <<>>
  /\ toolCalls = <<>>
  /\ updateSummary = <<>>
  /\ functionResponses = <<>>
  /\ chunks = 0
  /\ turns = 0
  /\ sessions = 0
  /\ clears = 0
  /\ edits = 0
  /\ docBefore = NULL
  /\ turnChanged = FALSE
  /\ lastTurn = "none"

Init ==
  /\ ChatUnmounted
  /\ NothingCopied
  /\ step = IDLE
  /\ error = <<>>
  /\ result = NULL
  /\ pc = [u \in Uploads |-> "none"]
  /\ assignmentResult = [u \in Uploads |-> NULL]
  /\ pending = [u \in Uploads |-> {}]
  /\ requests = [u \in Uploads |-> NoRequests]
  /\ output = [u \in Uploads |-> <<>>]
  /\ resets = 0
  /\ seen = [u \in Uploads |-> <<>>]
  /\ outcome = [u \in Uploads |-> "none"]

\* handleFileSelect up to its first await.  FileUpload is rendered only while
\* step is idle.
handleFileSelect(u) ==
  /\ UNCHANGED <<chatVars, editorVars>>
  /\ step = IDLE
  /\ pc[u] = "none"
  /\ \A v \in Uploads : v < u => pc[v] # "none"
  /\ step' = EXTRACTING
  /\ error' = <<>>
  /\ result' = NULL
  /\ pc' = [pc EXCEPT ![u] = "extracting"]
  /\ seen' = [Log(seen, <<EXTRACTING>>) EXCEPT ![u] = <<step, EXTRACTING>>]
  /\ requests' = [requests EXCEPT ![u].processAssignment = @ + 1]
  /\ UNCHANGED <<assignmentResult, pending, output, resets, outcome>>

\* the catch branch of handleFileSelect
Catch(u, message, before) ==
  /\ error' = <<ErrorText(message)>>
  /\ step' = ERROR
  /\ pc' = [pc EXCEPT ![u] = "done"]
  /\ outcome' = [outcome EXCEPT ![u] = "error"]
  /\ seen' = Log(seen, before \o <<ERROR>>)
  /\ assignmentResult' = [assignmentResult EXCEPT ![u] = NULL]
  /\ output' = [output EXCEPT ![u] = <<>>]
  /\ requests' = [requests EXCEPT ![u] = NoRequests]
  /\ UNCHANGED <<result, resets>>

\* a faulty handler: a failed processAssignment is called once more before the
\* failure is surfaced
ExtractionSettlesRetrying(u) ==
  /\ UNCHANGED <<chatVars, editorVars>>
  /\ pc[u] = "extracting"
  /\ \E o \in ExtractionOutcomes :
       LET r == processAssignment(o) IN
       IF r.ok
         THEN /\ assignmentResult' = [assignmentResult EXCEPT ![u] = r.value]
              /\ step' = CLASSIFYING
              /\ pc' = [pc EXCEPT ![u] = "classifying"]
              /\ seen' = Log(seen, <<CLASSIFYING>>)
              /\ UNCHANGED <<error, result, pending, output, requests, resets,
                             outcome>>
         ELSE IF requests[u].processAssignment < 2
           THEN /\ requests' = [requests EXCEPT ![u].processAssignment = @ + 1]
                /\ UNCHANGED <<step, error, result, pc, assignmentResult, pending,
                               output, resets, seen, outcome>>
           ELSE /\ Catch(u, r.message, <<>>)
                /\ UNCHANGED pending

\* the await of processAssignment returns or throws
ExtractionSettles(u) ==
  /\ UNCHANGED <<chatVars, editorVars>>
  /\ pc[u] = "extracting"
  /\ \E o \in ExtractionOutcomes :
       LET r == processAssignment(o) IN
       IF r.ok
         THEN /\ assignmentResult' = [assignmentResult EXCEPT ![u] = r.value]
              /\ step' = CLASSIFYING
              /\ pc' = [pc EXCEPT ![u] = "classifying"]
              /\ seen' = Log(seen, <<CLASSIFYING>>)
              /\ UNCHANGED <<error, result, pending, output, requests, resets,
                             outcome>>
         ELSE /\ Catch(u, r.message, <<>>)
              /\ UNCHANGED pending

\* setResult({ ...assignmentResult, questions: finalQuestions }); setStep(COMPLETED)
Complete(u, out, before) ==
  /\ result' = [questions |-> FinalQuestions(assignmentResult[u], out)] @@ assignmentResult[u]
  /\ step' = COMPLETED
  /\ pc' = [pc EXCEPT ![u] = "done"]
  /\ outcome' = [outcome EXCEPT ![u] = "completed"]
  /\ seen' = Log(seen, before \o <<COMPLETED>>)
  /\ assignmentResult' = [assignmentResult EXCEPT ![u] = NULL]
  /\ output' = [output EXCEPT ![u] = <<>>]
  /\ requests' = [requests EXCEPT ![u] = NoRequests]
  /\ UNCHANGED <<error, resets>>

\* the one second timer fires: setStep(SOLVING), the executions are dispatched.
\* With nothing to execute Promise.all resolves in the same turn of the event loop.
DelayElapses(u) ==
  /\ UNCHANGED <<chatVars, editorVars>>
  /\ pc[u] = "classifying"
  /\ LET doc == assignmentResult[u] IN
     IF ~Has(doc, "questions")
       THEN /\ Catch(u, TypeErrorMessage, <<SOLVING>>)
            /\ UNCHANGED pending
       ELSE IF ExecutionSet(doc) = {}
         THEN /\ Complete(u, <<>>, <<SOLVING>>)
              /\ UNCHANGED pending
         ELSE /\ step' = SOLVING
              /\ pending' = [pending EXCEPT ![u] = ExecutionSet(doc)]
              /\ requests' = [requests EXCEPT
                               ![u].executeCode = [i \in ExecutionSet(doc) |-> 1]]
              /\ pc' = [pc EXCEPT ![u] = "solving"]
              /\ seen' = Log(seen, <<SOLVING>>)
              /\ UNCHANGED <<error, result, assignmentResult, output, resets, outcome>>

\* a faulty join: the first executeCode request to return completes the upload
\* (Promise.race in place of Promise.all)
ExecutionReturnsFirst(u) ==
  /\ UNCHANGED <<chatVars, editorVars>>
  /\ pc[u] = "solving"
  /\ \E i \in pending[u], text \in OutputTexts :
       /\ pending' = [pending EXCEPT ![u] = @ \ {i}]
       /\ Complete(u, (i :> executeCode(text)) @@ output[u], <<>>)

\* a faulty join: the promise of the last executeCode request to return is
\* never resolved, the upload stays in solving
ExecutionReturnsUnjoined(u) ==
  /\ UNCHANGED <<chatVars, editorVars>>
  /\ pc[u] = "solving"
  /\ \E i \in pending[u], text \in OutputTexts :
       /\ pending' = [pending EXCEPT ![u] = @ \ {i}]
       /\ output' = [output EXCEPT ![u] = (i :> executeCode(text)) @@ output[u]]
       /\ UNCHANGED <<step, error, result, pc, resets, seen, outcome,
                      assignmentResult, requests>>

\* one executeCode request returns; the last one resolves Promise.all
ExecutionReturns(u) ==
  /\ UNCHANGED <<chatVars, editorVars>>
  /\ pc[u] = "solving"
  /\ \E i \in pending[u], text \in OutputTexts :
       LET out == (i :> executeCode(text)) @@ output[u] IN
       /\ pending' = [pending EXCEPT ![u] = @ \ {i}]
       /\ IF pending[u] = {i}
            THEN Complete(u, out, <<>>)
            ELSE /\ output' = [output EXCEPT ![u] = out]
                 /\ UNCHANGED <<step, error, result, pc, resets, seen, outcome,
                                assignmentResult, requests>>

\* one executeCode request fails: Promise.all rejects at once
ExecutionFails(u) ==
  /\ UNCHANGED <<chatVars, editorVars>>
  /\ pc[u] = "solving"
  /\ \E i \in pending[u], message \in ErrorMessages :
       /\ pending' = [pending EXCEPT ![u] = {}]
       /\ Catch(u, message, <<>>)

\* a faulty reset: setError(null) is missing
resetKeepsError ==
  /\ UNCHANGED <<chatVars, editorVars>>
  /\ resets < MaxResets
  /\ resets' = resets + 1
  /\ step' = IDLE
  /\ result' = NULL
  /\ seen' = Log(seen, <<IDLE>>)
  /\ UNCHANGED <<error, pc, assignmentResult, pending, output, requests, outcome>>

\* App.reset (the logo, "Try Again", "Solve another assignment")
reset ==
  /\ UNCHANGED <<chatVars, editorVars>>
  /\ resets < MaxResets
  /\ resets' = resets + 1
  /\ step' = IDLE
  /\ result' = NULL
  /\ error' = <<>>
  /\ seen' = Log(seen, <<IDLE>>)
  /\ UNCHANGED <<pc, assignmentResult, pending, output, requests, outcome>>

Next ==
  \/ \E u \in Uploads : handleFileSelect(u)
  \/ \E u \in Uploads : ExtractionSettles(u)
  \/ \E u \in Uploads : DelayElapses(u)
  \/ \E u \in Uploads : ExecutionReturns(u)
  \/ \E u \in Uploads : ExecutionFails(u)
  \/ reset

Spec == Init /\ [][Next]_vars

\* Every gateway call an invocation awaits eventually resolves or rejects, and
\* the classifying delay always elapses.
GatewaySettles(u) ==
  /\ WF_vars(ExtractionSettles(u))
  /\ WF_vars(DelayElapses(u))
  /\ WF_vars(ExecutionReturns(u) \/ ExecutionFails(u))

SpecLive == Spec /\ \A u \in Uploads : GatewaySettles(u)

\* ---------------------------------------------------------------- strings

Last(s) == s[Len(s)]
Front(s) == SubSeq(s, 1, Len(s) - 1)

Whitespace == {" "}

toLowerCase(c) ==
  CASE c = "A" -> "a" [] c = "B" -> "b" [] c = "S" -> "s" [] c = "L" -> "l"
    [] c = "N" -> "n" [] OTHER -> c

RECURSIVE SkipSpaces(_)
SkipSpaces(s) ==
  IF s # <<>> /\ Head(s) \in Whitespace THEN SkipSpaces(Tail(s)) ELSE s

\* title.replace(/\s+/g, '_').toLowerCase(): every run of white space becomes
\* one underscore, every letter its lower case
RECURSIVE Normalize(_)
Normalize(s) ==
  IF s = <<>> THEN <<>>
  ELSE IF Head(s) \in Whitespace THEN <<"_">> \o Normalize(SkipSpaces(s))
  ELSE <<toLowerCase(Head(s))>> \o Normalize(Tail(s))

\* `aceassign_chat_${...}`
StorageKeyOf(title) == <<"aceassign_chat_">> \o Normalize(title)

RECURSIVE TrimEnd(_)
TrimEnd(s) ==
  IF s # <<>> /\ Last(s) \in Whitespace THEN TrimEnd(Front(s)) ELSE s
\* input.trim()
Trim(s) == TrimEnd(SkipSpaces(s))

\* a faulty serialisation: only role and text are written
JSONobjectWithoutFlags(m) ==
  LET present == SelectSeq(<<"role", "text">>, LAMBDA f : f \in DOMAIN m) IN
  [k \in 1..Len(present) |-> <<present[k], m[present[k]]>>]

\* JSON text of a message list: per message the sequence of its own
\* properties as <<name, value>>, in the order the code writes them; a
\* property that is absent (undefined) is not written
MessageFields == <<"role", "text", "isSystem">>
JSONobject(m) ==
  LET present == SelectSeq(MessageFields, LAMBDA f : f \in DOMAIN m) IN
  [k \in 1..Len(present) |-> <<present[k], m[present[k]]>>]
JSONstringify(v) == [i \in 1..Len(v) |-> JSONobject(v[i])]

\* JSON.parse of such a text: an object has the properties the text names
ObjectOf(ps) ==
  [f \in {ps[k][1] : k \in 1..Len(ps)} |->
     ps[CHOOSE k \in 1..Len(ps) : ps[k][1] = f][2]]
JSONparse(t) == [i \in 1..Len(t) |-> ObjectOf(t[i])]

\* ---------------------------------------------------------------- chat data

UserMessage(t) == [role |-> "user", text |-> t]
ModelMessage(t) == [role |-> "model", text |-> t]
SystemMessage(t) == [role |-> "model", text |-> t, isSystem |-> TRUE]

Greeting == ModelMessage(<<"Hi! I'm your AI Tutor.">>)
HistoryCleared == ModelMessage(<<"History cleared.">>)
Apology == ModelMessage(<<"I encountered a minor issue.">>)
AppliedPrefix == <<"Applied changes: ">>
ConfirmationText(summary) ==
  AppliedPrefix \o (IF summary = <<>> THEN <<"Updated content.">> ELSE summary)

ToolName == "update_assignment_content"

\* what the user can type
Inputs == {<<>>, <<" ">>, <<" ", "h", " ">>}
\* titles the editor or a tool call can set
TitleSameKey == <<"l", "A", "B">>
TitleNew == <<"N">>

\* the function calls a response can carry
CallEdit ==
  [id |-> "c1", name |-> ToolName,
   args |-> [questions |-> <<[id |-> NumId("1"), solution |-> "first"],
                             [id |-> StrId("1"), explanation |-> "second"],
                             [id |-> StrId("zz"), code |-> "x"]>>]]
CallVerify ==
  [id |-> "c2", name |-> ToolName,
   args |-> [questions |-> <<[id |-> StrId("2"), solution |-> "verified"]>>,
             title |-> <<"N">>]]
CallUnknown ==
  [id |-> "c3", name |-> "delete_question", args |-> [reason |-> "x"]]
FunctionCalls == {CallEdit, CallVerify, CallUnknown}

\* one chunk of a response stream: its text and its functionCalls
Chunks ==
  {[text |-> <<"t">>, functionCalls |-> <<>>]}
    \cup {[text |-> <<>>, functionCalls |-> <<c>>] : c \in FunctionCalls}
    \cup {[text |-> <<"t">>, functionCalls |-> <<c, c>>] : c \in {CallEdit}}

\* ---------------------------------------------------------------- tool calls

\* args.questions.find(u => String(u.id) === String(q.id)): the position of the
\* first entry with q's id, 0 for undefined
Find(entries, q) ==
  LET hits == {j \in 1..Len(entries) : String(entries[j].id) = String(q.id)} IN
  IF hits = {} THEN 0 ELSE CHOOSE j \in hits : \A k \in hits : j <= k

\* a faulty merge: the spread written the other way round, { ...update, ...q },
\* so that the question's own fields win over the supplied ones
MergeQuestionKeepsOld(entries, q) ==
  LET j == Find(entries, q) IN
  IF j = 0 THEN q ELSE q @@ entries[j]

\* update ? { ...q, ...update } : q
MergeQuestion(entries, q) ==
  LET j == Find(entries, q) IN
  IF j = 0 THEN q ELSE entries[j] @@ q

HasQuestions(args) == Has(args, "questions")
HasTitle(args) == Has(args, "title") /\ args.title # <<>>

\* a faulty updater: the merged copy of a matched question is pushed onto the
\* list instead of replacing the question
UpdateAppending(prev, args) ==
  IF prev = NULL THEN NULL
  ELSE [title |-> IF HasTitle(args) THEN args.title ELSE prev.title,
        questions |->
          IF HasQuestions(args)
            THEN prev.questions
                   \o SelectSeq([i \in 1..Len(prev.questions) |->
                                   MergeQuestion(args.questions, prev.questions[i])],
                                LAMBDA q : Find(args.questions, q) # 0)
            ELSE prev.questions] @@ prev

\* the updater handleSend passes to setResult for one update_assignment_content call
UpdateAssignmentContent(prev, args) ==
  IF prev = NULL THEN NULL
  ELSE [title |-> IF HasTitle(args) THEN args.title ELSE prev.title,
        questions |->
          IF HasQuestions(args)
            THEN [i \in 1..Len(prev.questions) |->
                    MergeQuestion(args.questions, prev.questions[i])]
            ELSE prev.questions] @@ prev

\* what the same updater adds to updateSummary
SummaryOf(prev, args) ==
  IF prev = NULL THEN <<>>
  ELSE (IF HasQuestions(args)
          THEN <<"Modified ", ToString(Len(args.questions)), " question(s). ">>
          ELSE <<>>)
       \o (IF HasTitle(args) THEN <<"Updated title. ">> ELSE <<>>)

\* toolCalls.map(...): the setResult updaters run in call order
RECURSIVE ApplyCalls(_, _)
ApplyCalls(prev, cs) ==
  IF cs = <<>> THEN prev
  ELSE ApplyCalls(IF Head(cs).name = ToolName
                    THEN UpdateAssignmentContent(prev, Head(cs).args)
                    ELSE prev,
                  Tail(cs))

RECURSIVE SummaryOfCalls(_, _)
SummaryOfCalls(prev, cs) ==
  IF cs = <<>> THEN <<>>
  ELSE IF Head(cs).name = ToolName
    THEN SummaryOf(prev, Head(cs).args)
           \o SummaryOfCalls(UpdateAssignmentContent(prev, Head(cs).args), Tail(cs))
    ELSE SummaryOfCalls(prev, Tail(cs))

\* updateSummary is written inside the updaters, and read when the confirmation
\* text is built, in the same synchronous block.  React runs a queued updater
\* either at once or at the next render: when every setResult renders at once
\* all updaters have run by then; when updates are batched only the first
\* updater of the block can have run (computed eagerly on an empty queue), or
\* none.
SummaryOutcomes(prev, cs) ==
  LET upd == {i \in 1..Len(cs) : cs[i].name = ToolName}
      first == IF upd = {} THEN 0 ELSE CHOOSE i \in upd : \A k \in upd : i <= k
  IN {SummaryOfCalls(prev, cs), SummaryOfCalls(prev, SubSeq(cs, 1, first)), <<>>}

\* a faulty response builder: every call is answered as a success
FunctionResponseAlwaysSuccess(fc) ==
  [id |-> fc.id, name |-> fc.name,
   response |-> [status |-> "success", message |-> "Content updated live."]]

FunctionResponse(fc) ==
  IF fc.name = ToolName
    THEN [id |-> fc.id, name |-> fc.name,
          response |-> [status |-> "success", message |-> "Content updated live."]]
    ELSE [id |-> fc.id, name |-> fc.name, response |-> [error |-> "Unknown function"]]

\* the setMessages updater of processStream
AmendOrPush(prev, text) ==
  IF prev # <<>> /\ Last(prev).role = "model" /\ ~TruthyBool(Last(prev), "isSystem")
    THEN [prev EXCEPT ![Len(prev)] = [@ EXCEPT !.text = text]]
    ELSE Append(prev, ModelMessage(text))

\* ---------------------------------------------------------------- AITutorChat

\* chatPc values at which handleSend is inside one synchronous block (the tool
\* round, lines 130-187): nothing else runs until it reaches its next await
SyncPoints == {"tools", "confirm", "followSend"}
Yielded == chatPc \notin SyncPoints
Mounted == result # NULL /\ step = COMPLETED

\* a faulty render: the session effect does not test isOpen, a session is
\* started as soon as there is none
RenderStartingEagerly(res, msgs, store, open, session) ==
  LET key == StorageKeyOf(res.title)
      loaded == IF key \in DOMAIN store THEN JSONparse(store[key]) ELSE <<Greeting>>
      shown == IF key # storageKey THEN loaded ELSE msgs
      start == session = NULL
  IN /\ result' = res
     /\ storageKey' = key
     /\ messages' = shown
     /\ localStorage' = IF shown # <<>> THEN (key :> JSONstringify(shown)) @@ store
                        ELSE store
     /\ isOpen' = open
     /\ chatSession' = IF start THEN [id |-> sessions + 1, context |-> res] ELSE session
     /\ sessions' = IF start THEN sessions + 1 ELSE sessions

\* The render that follows a block of state updates, and its effects:
\*   - storageKey is recomputed from result.title;
\*   - load effect (deps [storageKey]): a changed key replaces messages by the
\*     transcript stored under the new key, or by the greeting;
\*   - save effect (deps [messages, storageKey]): a non-empty list is stored;
\*   - session effect: an open chat without a session starts one.
Render(res, msgs, store, open, session) ==
  LET key == StorageKeyOf(res.title)
      loaded == IF key \in DOMAIN store THEN JSONparse(store[key]) ELSE <<Greeting>>
      shown == IF key # storageKey THEN loaded ELSE msgs
      start == open /\ session = NULL
  IN /\ result' = res
     /\ storageKey' = key
     /\ messages' = shown
     /\ localStorage' = IF shown # <<>> THEN (key :> JSONstringify(shown)) @@ store
                        ELSE store
     /\ isOpen' = open
     /\ chatSession' = IF start THEN [id |-> sessions + 1, context |-> res] ELSE session
     /\ sessions' = IF start THEN sessions + 1 ELSE sessions

\* the floating button / the minimize button
OpenChat ==
  /\ Mounted /\ Yielded /\ ~isOpen
  /\ Render(result, messages, localStorage, TRUE, chatSession)
  /\ UNCHANGED <<step, error, pipelineVars, editorVars, input, isLoading, chatPc, turnVars,
                 chunks, turns, clears, edits, lastTurn>>

CloseChat ==
  /\ Mounted /\ Yielded /\ isOpen
  /\ Render(result, messages, localStorage, FALSE, chatSession)
  /\ UNCHANGED <<step, error, pipelineVars, editorVars, input, isLoading, chatPc, turnVars,
                 chunks, turns, clears, edits, lastTurn>>

\* clearHistory, confirmed
clearHistory ==
  /\ Mounted /\ Yielded /\ isOpen
  /\ clears + edits < MaxInterrupts
  /\ clears' = clears + 1
  /\ Render(result, <<HistoryCleared>>,
            [k \in DOMAIN localStorage \ {storageKey} |-> localStorage[k]],
            isOpen, NULL)
  /\ UNCHANGED <<step, error, pipelineVars, editorVars, input, isLoading, chatPc, turnVars,
                 chunks, turns, edits, lastTurn>>

\* the editor's title field: setResult(prev => prev ? { ...prev, title: v } : null)
updateTitle ==
  /\ Mounted /\ Yielded
  /\ clears + edits < MaxInterrupts
  /\ edits' = edits + 1
  /\ \E v \in {TitleSameKey, TitleNew} :
       /\ v # result.title
       /\ Render([title |-> v] @@ result, messages, localStorage, isOpen, chatSession)
  /\ UNCHANGED <<step, error, pipelineVars, editorVars, input, isLoading, chatPc, turnVars,
                 chunks, turns, clears, lastTurn>>

\* a faulty handleSend: the guard does not test isLoading, so a send is
\* accepted while a turn is in flight
handleSendWhileLoading(typed) ==
  /\ Mounted /\ Yielded /\ isOpen
  /\ Trim(typed) # <<>> /\ chatSession # NULL
  /\ turns <= MaxTurns
  /\ turns' = turns + 1
  /\ input' = <<>>
  /\ isLoading' = TRUE
  /\ chatPc' = "sending"
  /\ turnSession' = chatSession
  /\ fullText' = <<>>
  /\ calls' = <<>>
  /\ toolCalls' = <<>>
  /\ updateSummary' = <<>>
  /\ functionResponses' = <<>>
  /\ docBefore' = NULL
  /\ turnChanged' = FALSE
  /\ lastTurn' = "running"
  /\ Render(result, Append(messages, UserMessage(Trim(typed))), localStorage,
            isOpen, chatSession)
  /\ UNCHANGED <<step, error, pipelineVars, editorVars, chunks, clears, edits>>

\* The user types `typed` into the input field (setInput) and sends it:
\* handleSend up to its first await.  A send the guard of line 90 rejects
\* returns at once and changes nothing: it is a stuttering step.
handleSend(typed) ==
  /\ Mounted /\ Yielded /\ isOpen
  /\ Trim(typed) # <<>> /\ chatSession # NULL /\ ~isLoading
  /\ turns < MaxTurns
  /\ turns' = turns + 1
  /\ input' = <<>>
  /\ isLoading' = TRUE
  /\ chatPc' = "sending"
  /\ turnSession' = chatSession
  /\ fullText' = <<>>
  /\ calls' = <<>>
  /\ toolCalls' = <<>>
  /\ updateSummary' = <<>>
  /\ functionResponses' = <<>>
  /\ docBefore' = NULL
  /\ turnChanged' = FALSE
  /\ lastTurn' = "running"
  /\ Render(result, Append(messages, UserMessage(Trim(typed))), localStorage,
            isOpen, chatSession)
  /\ UNCHANGED <<step, error, pipelineVars, editorVars, chunks, clears, edits>>

\* handleSend returns: its locals are gone
TurnEnds ==
  /\ turnSession' = NULL
  /\ fullText' = <<>>
  /\ calls' = <<>>
  /\ toolCalls' = <<>>
  /\ updateSummary' = <<>>
  /\ functionResponses' = <<>>
  /\ docBefore' = NULL
  /\ UNCHANGED turnChanged

\* a faulty error path: the finally block is missing, isLoading stays set
ChatCatchKeepsLoading ==
  /\ chatPc' = "idle"
  /\ lastTurn' = "error"
  /\ Render(result, Append(messages, Apology), localStorage, isOpen, chatSession)
  /\ TurnEnds
  /\ UNCHANGED <<step, error, pipelineVars, editorVars, input, isLoading, chunks, turns, clears,
                 edits>>

\* catch and finally of handleSend
ChatCatch ==
  /\ isLoading' = FALSE
  /\ chatPc' = "idle"
  /\ lastTurn' = "error"
  /\ Render(result, Append(messages, Apology), localStorage, isOpen, chatSession)
  /\ TurnEnds
  /\ UNCHANGED <<step, error, pipelineVars, editorVars, input, chunks, turns, clears, edits>>

\* finally of handleSend, no error
ChatFinally ==
  /\ isLoading' = FALSE
  /\ chatPc' = "idle"
  /\ lastTurn' = "ok"
  /\ TurnEnds
  /\ UNCHANGED <<appVars, editorVars, isOpen, input, messages, chatSession, storageKey,
                 localStorage, chunks, turns, sessions, clears, edits>>

\* await chatSession.sendMessageStream(...) returns a stream: processStream starts
RequestResolves ==
  /\ Mounted
  /\ chatPc \in {"sending", "followSending"}
  /\ chatPc' = IF chatPc = "sending" THEN "streaming" ELSE "followStreaming"
  /\ calls' = <<>>
  /\ UNCHANGED <<appVars, editorVars, isOpen, input, messages, isLoading, chatSession,
                 storageKey, localStorage, turnSession, fullText, toolCalls,
                 updateSummary, functionResponses, docBefore, turnChanged, chunks,
                 turns, sessions, clears, edits, lastTurn>>

\* await chatSession.sendMessageStream(...) throws
RequestRejects ==
  /\ Mounted
  /\ chatPc \in {"sending", "followSending"}
  /\ ChatCatch

\* one iteration of processStream's loop
StreamChunk ==
  /\ Mounted
  /\ chatPc \in {"streaming", "followStreaming"}
  /\ chunks < MaxChunks
  /\ chunks' = chunks + 1
  /\ \E c \in Chunks :
       /\ calls' = calls \o c.functionCalls
       /\ IF c.text # <<>>
            THEN /\ fullText' = fullText \o c.text
                 /\ Render(result, AmendOrPush(messages, fullText \o c.text),
                           localStorage, isOpen, chatSession)
            ELSE UNCHANGED <<fullText, result, messages, storageKey, localStorage,
                             isOpen, chatSession, sessions>>
  /\ UNCHANGED <<step, error, pipelineVars, editorVars, input, isLoading, chatPc, turnSession,
                 toolCalls, updateSummary, functionResponses, docBefore,
                 turnChanged, turns, clears, edits, lastTurn>>

\* the stream throws while it is iterated
StreamThrows ==
  /\ Mounted
  /\ chatPc \in {"streaming", "followStreaming"}
  /\ ChatCatch

\* a faulty handler: the calls the follow-up stream collected start another
\* tool round
StreamEndsLooping ==
  /\ Mounted
  /\ chatPc \in {"streaming", "followStreaming"}
  /\ IF Len(calls) > 0
       THEN /\ toolCalls' = calls
            /\ chatPc' = "tools"
            /\ UNCHANGED <<appVars, editorVars, isOpen, input, messages, isLoading,
                           chatSession, storageKey, localStorage, turnSession,
                           fullText, calls, updateSummary, functionResponses,
                           docBefore, turnChanged, chunks, turns, sessions, clears,
                           edits, lastTurn>>
       ELSE ChatFinally

\* the stream ends: processStream returns calls
StreamEnds ==
  /\ Mounted
  /\ chatPc \in {"streaming", "followStreaming"}
  /\ IF chatPc = "streaming" /\ Len(calls) > 0
       THEN /\ toolCalls' = calls
            /\ chatPc' = "tools"
            /\ UNCHANGED <<appVars, editorVars, isOpen, input, messages, isLoading, chatSession,
                           storageKey, localStorage, turnSession, fullText, calls,
                           updateSummary, functionResponses, docBefore,
                           turnChanged, chunks, turns, sessions, clears, edits,
                           lastTurn>>
       ELSE ChatFinally

\* a faulty tool round: the function responses are built but setResult is
\* not called before the confirmation is appended
ProcessToolCallsWithoutUpdate ==
  /\ chatPc = "tools"
  /\ docBefore' = result
  /\ turnChanged' = FALSE
  /\ updateSummary' \in SummaryOutcomes(result, toolCalls)
  /\ functionResponses' = [i \in 1..Len(toolCalls) |-> FunctionResponse(toolCalls[i])]
  /\ chatPc' = "confirm"
  /\ UNCHANGED <<appVars, editorVars, isOpen, input, messages, isLoading,
                 chatSession, storageKey, localStorage, turnSession, fullText,
                 calls, toolCalls, chunks, turns, sessions, clears, edits, lastTurn>>

\* toolCalls.map(...): every update_assignment_content call is applied with
\* setResult, every call gets its function response
ProcessToolCalls ==
  /\ chatPc = "tools"
  /\ docBefore' = result
  /\ result' = ApplyCalls(result, toolCalls)
  /\ turnChanged' = (ApplyCalls(result, toolCalls) # result)
  /\ updateSummary' \in SummaryOutcomes(result, toolCalls)
  /\ functionResponses' = [i \in 1..Len(toolCalls) |-> FunctionResponse(toolCalls[i])]
  /\ chatPc' = "confirm"
  /\ UNCHANGED <<step, error, pipelineVars, editorVars, isOpen, input, messages, isLoading,
                 chatSession, storageKey, localStorage, turnSession, fullText,
                 calls, toolCalls, chunks, turns, sessions, clears, edits, lastTurn>>

\* setMessages(prev => [...prev, the system confirmation])
AppendConfirmation ==
  /\ chatPc = "confirm"
  /\ messages' = Append(messages, SystemMessage(ConfirmationText(updateSummary)))
  /\ chatPc' = "followSend"
  /\ UNCHANGED <<appVars, editorVars, isOpen, input, isLoading, chatSession, storageKey,
                 localStorage, turnVars, chunks, turns, sessions, clears, edits,
                 lastTurn>>

\* fullText = ''; chatSession.sendMessageStream({ message: functionResponses })
\* is called and awaited: the block yields and React renders
SendFollowUp ==
  /\ chatPc = "followSend"
  /\ fullText' = <<>>
  /\ chatPc' = "followSending"
  /\ Render(result, messages, localStorage, isOpen, chatSession)
  /\ UNCHANGED <<step, error, pipelineVars, editorVars, input, isLoading, turnSession, calls,
                 toolCalls, updateSummary, functionResponses, docBefore,
                 turnChanged, chunks, turns, clears, edits, lastTurn>>

\* the chat as it is when SolutionDisplay has just been mounted for a completed
\* document: the load effect found nothing stored and set the greeting, the save
\* effect stored it
MountedWith(doc) ==
  /\ step = COMPLETED
  /\ error = <<>>
  /\ result = doc
  /\ NothingCopied
  /\ pc = [u \in Uploads |-> IF u = 1 THEN "done" ELSE "none"]
  /\ assignmentResult = [u \in Uploads |-> NULL]
  /\ pending = [u \in Uploads |-> {}]
  /\ requests = [u \in Uploads |-> NoRequests]
  /\ output = [u \in Uploads |-> <<>>]
  /\ resets = 0
  /\ seen = [u \in Uploads |-> IF u = 1 THEN StepOrder ELSE <<>>]
  /\ outcome = [u \in Uploads |-> IF u = 1 THEN "completed" ELSE "none"]
  /\ isOpen = FALSE
  /\ input = <<>>
  /\ messages = <<Greeting>>
  /\ isLoading = FALSE
  /\ chatSession = NULL
  /\ storageKey = StorageKeyOf(result.title)
  /\ localStorage = (StorageKeyOf(result.title) :> JSONstringify(<<Greeting>>))
  /\ chatPc = "idle"
  /\ turnSession = NULL
  /\ fullText = <<>>
  /\ calls = <<>>
  /\ toolCalls = <<>>
  /\ updateSummary = <<>>
  /\ functionResponses = <<>>
  /\ chunks = 0
  /\ turns = 0
  /\ sessions = 0
  /\ clears = 0
  /\ edits = 0
  /\ docBefore = NULL
  /\ turnChanged = FALSE
  /\ lastTurn = "none"

InitChat ==
  MountedWith([questions |-> FinalQuestions(DocCoding, <<"2", "No output.">>)] @@ DocCoding)

NextChat ==
  \/ OpenChat
  \/ CloseChat
  \/ clearHistory
  \/ updateTitle
  \/ \E typed \in Inputs : handleSend(typed)
  \/ RequestResolves
  \/ RequestRejects
  \/ StreamChunk
  \/ StreamThrows
  \/ StreamEnds
  \/ ProcessToolCalls
  \/ AppendConfirmation
  \/ SendFollowUp

SpecChat == InitChat /\ [][NextChat]_vars

\* ---------------------------------------------------------------- the tool round

\* what the first response stream of a turn has collected when it carried
\* function calls
CollectedCalls ==
  {<<c>> : c \in FunctionCalls} \cup {<<CallEdit, CallUnknown>>}

\* The chat in the middle of a turn: the panel is open, "h" was sent, the
\* request has returned its stream and processStream has collected `cs`.
\* chunks counts the chunks delivered from here on.
Streaming(doc, cs) ==
  /\ step = COMPLETED
  /\ error = <<>>
  /\ result = doc
  /\ NothingCopied
  /\ pc = [u \in Uploads |-> IF u = 1 THEN "done" ELSE "none"]
  /\ assignmentResult = [u \in Uploads |-> NULL]
  /\ pending = [u \in Uploads |-> {}]
  /\ requests = [u \in Uploads |-> NoRequests]
  /\ output = [u \in Uploads |-> <<>>]
  /\ resets = 0
  /\ seen = [u \in Uploads |-> IF u = 1 THEN StepOrder ELSE <<>>]
  /\ outcome = [u \in Uploads |-> IF u = 1 THEN "completed" ELSE "none"]
  /\ isOpen = TRUE
  /\ input = <<>>
  /\ messages = <<Greeting, UserMessage(<<"h">>)>>
  /\ isLoading = TRUE
  /\ chatSession = [id |-> 1, context |-> doc]
  /\ storageKey = StorageKeyOf(doc.title)
  /\ localStorage =
       (StorageKeyOf(doc.title) :> JSONstringify(<<Greeting, UserMessage(<<"h">>)>>))
  /\ chatPc = "streaming"
  /\ turnSession = [id |-> 1, context |-> doc]
  /\ fullText = <<>>
  /\ calls = cs
  /\ toolCalls = <<>>
  /\ updateSummary = <<>>
  /\ functionResponses = <<>>
  /\ chunks = 0
  /\ turns = 1
  /\ sessions = 1
  /\ clears = 0
  /\ edits = 0
  /\ docBefore = NULL
  /\ turnChanged = FALSE
  /\ lastTurn = "running"

InitTools ==
  \E cs \in CollectedCalls :
    Streaming([questions |-> FinalQuestions(DocCoding, <<"2", "No output.">>)]
                @@ DocCoding, cs)

\* the rest of the turn in progress and what the user can do meanwhile and
\* after it, short of sending another message
NextTools ==
  \/ OpenChat
  \/ CloseChat
  \/ clearHistory
  \/ updateTitle
  \/ RequestResolves
  \/ RequestRejects
  \/ StreamChunk
  \/ StreamThrows
  \/ StreamEnds
  \/ ProcessToolCalls
  \/ AppendConfirmation
  \/ SendFollowUp

SpecTools == InitTools /\ [][NextTools]_vars

\* ---------------------------------------------------------------- stored transcripts

\* transcripts an earlier visit of the page left in local storage: the save
\* effect stored them message by message as the chat went on
TranscriptChat == <<Greeting, UserMessage(<<"h">>), ModelMessage(<<"t">>)>>
TranscriptTools ==
  <<HistoryCleared, UserMessage(<<"h">>), SystemMessage(ConfirmationText(<<>>)),
    Apology>>
Transcripts == {TranscriptChat, TranscriptTools}

\* what local storage holds when the page is loaded
Stores ==
  {(StorageKeyOf(TitleLab) :> JSONstringify(TranscriptChat)),
   (StorageKeyOf(TitleLab) :> JSONstringify(TranscriptTools))
     @@ (StorageKeyOf(TitleNew) :> JSONstringify(TranscriptChat))}

\* AITutorChat has been rendered for the first time (useState initial values,
\* lines 21-25) for a completed document and its effects have not run yet
FirstRender(doc, store) ==
  /\ step = COMPLETED
  /\ error = <<>>
  /\ result = doc
  /\ NothingCopied
  /\ pc = [u \in Uploads |-> IF u = 1 THEN "done" ELSE "none"]
  /\ assignmentResult = [u \in Uploads |-> NULL]
  /\ pending = [u \in Uploads |-> {}]
  /\ requests = [u \in Uploads |-> NoRequests]
  /\ output = [u \in Uploads |-> <<>>]
  /\ resets = 0
  /\ seen = [u \in Uploads |-> IF u = 1 THEN StepOrder ELSE <<>>]
  /\ outcome = [u \in Uploads |-> IF u = 1 THEN "completed" ELSE "none"]
  /\ isOpen = FALSE
  /\ input = <<>>
  /\ messages = <<>>
  /\ isLoading = FALSE
  /\ chatSession = NULL
  /\ storageKey = <<>>
  /\ localStorage = store
  /\ chatPc = "idle"
  /\ turnSession = NULL
  /\ fullText = <<>>
  /\ calls = <<>>
  /\ toolCalls = <<>>
  /\ updateSummary = <<>>
  /\ functionResponses = <<>>
  /\ chunks = 0
  /\ turns = 0
  /\ sessions = 0
  /\ clears = 0
  /\ edits = 0
  /\ docBefore = NULL
  /\ turnChanged = FALSE
  /\ lastTurn = "none"

InitStore ==
  \E store \in Stores :
    FirstRender([questions |-> FinalQuestions(DocCoding, <<"2", "No output.">>)]
                  @@ DocCoding, store)

\* the effects of the first render run: the load effect reads the entry under
\* storageKey, the save effect stores the list that results
MountEffects ==
  /\ Mounted
  /\ storageKey = <<>>
  /\ Render(result, messages, localStorage, isOpen, chatSession)
  /\ UNCHANGED <<step, error, pipelineVars, editorVars, input, isLoading, chatPc, turnVars,
                 chunks, turns, clears, edits, lastTurn>>

\* no event is handled before the effects of the first render have run
NextStore ==
  \/ MountEffects
  \/ storageKey # <<>> /\ NextChat

SpecStore == InitStore /\ [][NextStore]_vars

\* ---------------------------------------------------------------- the updater alone

\* the documents a completed upload of a conforming response leaves in result
Documents ==
  {[questions |-> FinalQuestions(d, [i \in ExecutionSet(d) |-> "2"])] @@ d : d \in ValidDocs}

\* arguments of update_assignment_content calls
UpdateArgs ==
  {c.args : c \in {CallEdit, CallVerify}}
    \cup {[questions |-> <<>>],
          [title |-> <<>>],
          [questions |-> <<[id |-> StrId("q1")]>>],
          [questions |-> <<[id |-> StrId("1"), language |-> "c"],
                           [id |-> NumId("2"), question_text |-> "new",
                            explanation |-> "new"]>>,
           title |-> TitleSameKey]}

InitMerge == \E d \in Documents : MountedWith(d)

\* one update_assignment_content call processed by handleSend's map callback:
\* setResult(prev => ...) is applied to the current result.  toolCalls keeps
\* the calls applied so far, docBefore the document before the last one.
ApplyUpdate(args) ==
  /\ Len(toolCalls) < MaxUpdates
  /\ docBefore' = result
  /\ result' = UpdateAssignmentContent(result, args)
  /\ toolCalls' = Append(toolCalls, [id |-> "c", name |-> ToolName, args |-> args])
  /\ UNCHANGED <<step, error, pipelineVars, editorVars, isOpen, input, messages, isLoading,
                 chatSession, storageKey, localStorage, chatPc, turnSession,
                 fullText, calls, updateSummary, functionResponses, turnChanged,
                 chunks, turns, sessions, clears, edits, lastTurn>>

NextMerge == \E args \in UpdateArgs : ApplyUpdate(args)

SpecMerge == InitMerge /\ [][NextMerge]_vars

\* ---------------------------------------------------------------- SolutionDisplay

\* The response schema types a question id as a string and nothing more: an
\* assignment in sections can come back with the numbering restarted.
QPrintAgain ==
  [id |-> StrId("1"), question_text |-> "Print a product", language |-> "python",
   requires_execution |-> TRUE, solution |-> "", code |-> "print(2*3)",
   explanation |-> "Multiplies"]
DocSections ==
  [title |-> TitleLab, type |-> CODING, questions |-> <<QPrint, QLoop, QPrintAgain>>]

\* the documents SolutionDisplay can be mounted with
EditorDocuments ==
  Documents
    \cup {[questions |-> FinalQuestions(DocSections,
                                        [i \in ExecutionSet(DocSections) |-> "2"])]
            @@ DocSections}

InitEditor == \E d \in EditorDocuments : MountedWith(d)

\* the ids the rendered questions carry, and one that no question carries
RenderedIds == {result.questions[i].id : i \in 1..Len(result.questions)}
AbsentId == StrId("zz")
\* the fields the editor passes to updateQuestionField, and what it can type
EditedFields == {"question_text", "explanation", "solution", "code", "language"}
TypedValues == {"edited"}
AssetIds == {"a1", "a2"}
NewAsset(a) == [id |-> a, type |-> "image", url |-> "data:", caption |-> "fig.png"]

\* what the editor's callbacks leave alone: the app's step and error, the
\* pipeline, the chat, the copy acknowledgement
EditorFrame ==
  UNCHANGED <<step, error, pipelineVars, copiedId, timers, isOpen, input, messages,
              isLoading, chatSession, storageKey, localStorage, chatPc, turnVars,
              chunks, turns, sessions, clears, lastTurn>>

\* a faulty updateQuestionField: the question is rebuilt from its id and the
\* edited field alone
updateQuestionFieldDroppingRest(id, field, value) ==
  /\ Mounted
  /\ edits < MaxEdits
  /\ edits' = edits + 1
  /\ editorCall' = [op |-> "updateQuestionField", id |-> id, field |-> field,
                    value |-> value]
  /\ result' =
       [questions |->
          [j \in 1..Len(result.questions) |->
             IF result.questions[j].id = id
               THEN (field :> value) @@ [id |-> id]
               ELSE result.questions[j]]] @@ result
  /\ EditorFrame

\* updateQuestionField(id, field, value):
\* questions.map(q => q.id === id ? { ...q, [field]: value } : q)
updateQuestionField(id, field, value) ==
  /\ Mounted
  /\ edits < MaxEdits
  /\ edits' = edits + 1
  /\ editorCall' = [op |-> "updateQuestionField", id |-> id, field |-> field,
                    value |-> value]
  /\ result' =
       [questions |->
          [j \in 1..Len(result.questions) |->
             IF result.questions[j].id = id
               THEN (field :> value) @@ result.questions[j]
               ELSE result.questions[j]]] @@ result
  /\ EditorFrame

\* addImageToQuestion(id, file), when the file has been read:
\* q.id === id ? { ...q, assets: [...(q.assets || []), newAsset] } : q
addImageToQuestion(id, a) ==
  /\ Mounted
  /\ edits < MaxEdits
  /\ edits' = edits + 1
  /\ editorCall' = [op |-> "addImageToQuestion", id |-> id, asset |-> a]
  /\ result' =
       [questions |->
          [j \in 1..Len(result.questions) |->
             LET q == result.questions[j] IN
             IF q.id = id
               THEN [assets |-> (IF Has(q, "assets") THEN q.assets ELSE <<>>)
                                  \o <<NewAsset(a)>>] @@ q
               ELSE q]] @@ result
  /\ EditorFrame

\* the Delete Question button of the i-th rendered question, confirmed:
\* questions.filter(qu => qu.id !== q.id)
deleteQuestion(i) ==
  /\ Mounted
  /\ edits < MaxEdits
  /\ edits' = edits + 1
  /\ editorCall' = [op |-> "deleteQuestion", index |-> i]
  /\ result' =
       [questions |->
          SelectSeq(result.questions, LAMBDA qu : qu.id # result.questions[i].id)]
         @@ result
  /\ EditorFrame

\* what a click on the copy button and its timer leave alone
CopyFrame ==
  UNCHANGED <<appVars, chatVars, editorCall>>

\* the copy button of the i-th rendered question (rendered when q.code is
\* defined): writeText(q.code || ''); setCopiedId(q.id);
\* setTimeout(() => setCopiedId(null), 2000)
copyToClipboard(i) ==
  /\ Mounted
  /\ Has(result.questions[i], "code")
  /\ Len(timers) < MaxTimers
  /\ copiedId' = <<result.questions[i].id>>
  /\ timers' = Append(timers, result.questions[i].id)
  /\ CopyFrame

\* a timer fires: setCopiedId(null).  The delays are equal, so the timers fire
\* in the order in which they were set.
TimerFires ==
  /\ Mounted
  /\ timers # <<>>
  /\ copiedId' = <<>>
  /\ timers' = Tail(timers)
  /\ CopyFrame

\* a faulty indicator: it is shown whenever some id is set
ShowsCopiedForAny(i) ==
  /\ Has(result.questions[i], "code")
  /\ copiedId # <<>>

\* the i-th rendered question shows the copied indicator: copiedId === q.id
ShowsCopied(i) ==
  /\ Has(result.questions[i], "code")
  /\ copiedId = <<result.questions[i].id>>

NextEditor ==
  \/ \E id \in RenderedIds \cup {AbsentId}, field \in EditedFields, value \in TypedValues :
       updateQuestionField(id, field, value)
  \/ \E id \in RenderedIds, a \in AssetIds : addImageToQuestion(id, a)
  \/ \E i \in 1..Len(result.questions) : deleteQuestion(i)
  \/ \E i \in 1..Len(result.questions) : copyToClipboard(i)
  \/ TimerFires

SpecEditor == InitEditor /\ [][NextEditor]_vars

\* ================================================================ claims
\* ---------------------------------------------------------------- pipeline

Working == {EXTRACTING, CLASSIFYING, SOLVING}

\* C1 (as stated): for every file selection that runs to completed (its gateway
\* calls all succeeded), the values step took from the selection on are exactly
\* idle, extracting, classifying, solving, completed, in that order.
C1_ExactOrder ==
  \A u \in Uploads : outcome[u] = "completed" => seen[u] = StepOrder

\* C3 (as stated): once step is error or completed it keeps that value; the only
\* transition out of it is reset's transition to idle.
C3_TerminalUntilReset ==
  [][(step = ERROR \/ step = COMPLETED)
       => (step' = step \/ (step' = IDLE /\ resets' = resets + 1))]_vars

\* an invocation's gateway call fails in this step, while step is a working state
GatewayFails(u) ==
  /\ step \in Working
  /\ pc[u] \in {"extracting", "solving"}
  /\ outcome'[u] = "error"

\* C4 (as stated): whenever a gateway call of an upload fails while step is
\* extracting, classifying or solving, step becomes error with a non-empty
\* message, the result is null, and that upload never reaches completed.
C4_FailureGoesToError ==
  [][\A u \in Uploads :
       /\ GatewayFails(u) =>
            /\ step' = ERROR
            /\ error' # <<>> /\ error'[1] # ""
            /\ result' = NULL
       /\ outcome[u] = "error" => outcome'[u] = "error"]_vars

\* C5 (as stated): an extraction response that is absent, is not JSON or lacks
\* title, type or questions is treated as a failure: the upload it belongs to
\* never reaches completed.
C5_MalformedNeverCompletes ==
  [][\A u \in Uploads :
       (outcome[u] # "completed" /\ outcome'[u] = "completed")
         => ConformsToSchema(assignmentResult[u])]_vars

\* ---------------------------------------------------------------- chat

\* C2 (as stated): a chat turn that ended in handleSend's catch branch has not
\* changed the assignment result.
C2_ErrorTurnLeavesDocument ==
  lastTurn = "error" => ~turnChanged

\* question q became q2 by overwriting exactly the fields entry e supplies
Overwritten(q, e, q2) ==
  /\ DOMAIN q2 = DOMAIN q \cup DOMAIN e
  /\ \A f \in DOMAIN e : q2[f] = e[f]
  /\ \A f \in DOMAIN q \ DOMAIN e : q2[f] = q[f]

Matches(e, q) == String(e.id) = String(q.id)

\* the merge as C6 states it: every entry with the question's id is applied
MergedByEveryEntry(prev, args, next) ==
  /\ Len(next.questions) = Len(prev.questions)
  /\ \A i \in 1..Len(prev.questions) :
       LET q == prev.questions[i]
           q2 == next.questions[i]
           es == IF HasQuestions(args) THEN args.questions ELSE <<>>
       IN /\ \A j \in 1..Len(es) : Matches(es[j], q) => Overwritten(q, es[j], q2)
          /\ (\A j \in 1..Len(es) : ~Matches(es[j], q)) => q2 = q

\* the merge as amended: the first entry with the question's id is applied
MergedByFirstEntry(prev, args, next) ==
  /\ Len(next.questions) = Len(prev.questions)
  /\ \A i \in 1..Len(prev.questions) :
       LET q == prev.questions[i]
           q2 == next.questions[i]
           es == IF HasQuestions(args) THEN args.questions ELSE <<>>
       IN /\ \A j \in 1..Len(es) :
               (Matches(es[j], q) /\ \A k \in 1..(j - 1) : ~Matches(es[k], q))
                 => Overwritten(q, es[j], q2)
          /\ (\A j \in 1..Len(es) : ~Matches(es[j], q)) => q2 = q

\* the arguments of the update applied last
LastArgs == toolCalls[Len(toolCalls)].args

\* C6 (as stated): applying an update_assignment_content call overwrites, in every
\* question whose id equals (as a string) the id of an entry of args.questions,
\* exactly the fields that entry supplies; other questions are unchanged and
\* an entry that matches no question changes nothing.
C6_MergeEveryEntry ==
  toolCalls # <<>> => MergedByEveryEntry(docBefore, LastArgs, result)

\* C6 (amended): in every question whose id equals (as a string) the id of an
\* entry of args.questions, exactly the fields supplied by the FIRST such
\* entry are overwritten and every other field keeps its value; a question
\* matching no entry is unchanged; an entry matching no question changes
\* nothing.
C6_MergeFirstEntry ==
  toolCalls # <<>> => MergedByFirstEntry(docBefore, LastArgs, result)

C6_Witness ==
  /\ Len(toolCalls) = 1
  /\ LastArgs = CallEdit.args
  /\ result.questions[1].solution = "first"
  /\ result.questions[1].explanation = docBefore.questions[1].explanation
  /\ result.questions[2] = docBefore.questions[2]

\* C7: applying the same update_assignment_content arguments twice in succession
\* gives the document that applying them once gives.
C7_Idempotent ==
  /\ toolCalls # <<>> => UpdateAssignmentContent(result, LastArgs) = result
  /\ (Len(toolCalls) >= 2 /\ toolCalls[Len(toolCalls) - 1].args = LastArgs)
       => result = docBefore

C7_Witness ==
  /\ Len(toolCalls) = 2
  /\ toolCalls[1].args = CallEdit.args
  /\ toolCalls[2].args = CallEdit.args
  /\ result = docBefore
  /\ result.questions[1].solution = "first"

\* the number of questions of prev that args names
Existing(prev, args) ==
  Cardinality({i \in 1..Len(prev.questions) : Find(args.questions, prev.questions[i]) # 0})

\* C8 (as stated): the confirmation appended after a round of one update call
\* naming questions reports the number m of named questions that exist in the
\* document.
C8_ReportsChangedCount ==
  (chatPc = "followSend" /\ Len(toolCalls) = 1 /\ toolCalls[1].name = ToolName
     /\ HasQuestions(toolCalls[1].args))
    => Last(messages).text =
         ConfirmationText(
           <<"Modified ", ToString(Existing(docBefore, toolCalls[1].args)),
             " question(s). ">>
           \o (IF HasTitle(toolCalls[1].args) THEN <<"Updated title. ">> ELSE <<>>))

IsConfirmation(m) == TruthyBool(m, "isSystem")

\* C9: the updates of a tool round are in the Document Model before the round's
\* confirmation is in the message list: in the state in which handleSend has
\* just appended the confirmation, result is the document the round started
\* from with every update_assignment_content call of the round applied.
C9_UpdateBeforeConfirmation ==
  chatPc = "followSend" =>
    /\ IsConfirmation(Last(messages))
    /\ result = ApplyCalls(docBefore, toolCalls)

C9_Witness ==
  /\ chatPc = "followSend"
  /\ IsConfirmation(Last(messages))
  /\ result # docBefore

\* every message of old is still in new, in place; only a streaming model
\* message's text may differ
Kept(old, new) ==
  /\ Len(new) >= Len(old)
  /\ \A i \in 1..Len(old) :
       \/ new[i] = old[i]
       \/ /\ i = Len(old)
          /\ chatPc \in {"streaming", "followStreaming"}
          /\ old[i].role = "model"
          /\ new[i] = [old[i] EXCEPT !.text = new[i].text]

\* C10 (as stated): except for clearHistory, no step removes or alters a message
\* of the list, other than the text of the trailing model message while a turn
\* is streaming.
C10_AppendOnly ==
  [][clears' = clears => Kept(messages, messages')]_vars

\* ---------------------------------------------------------------- C11..C20

\* a chat turn is in flight: handleSend has been accepted and has not returned
InFlight == chatPc # "idle"

Completes(u) == outcome[u] # "completed" /\ outcome'[u] = "completed"

\* C12: an upload does not reach completed while an execution simulation
\* dispatched for it is outstanding: a completed upload has none pending, and
\* in the step that completes it every question that qualified for execution
\* has received its output.
C12_JoinBeforeCompleted ==
  /\ [](\A u \in Uploads : outcome[u] = "completed" => pending[u] = {})
  /\ [][\A u \in Uploads :
          Completes(u) =>
            /\ step' = COMPLETED
            /\ \A i \in ExecutionSet(assignmentResult[u]) :
                 Has(result'.questions[i], "execution_output")]_vars

C12_Witness ==
  /\ step = COMPLETED
  /\ \E u \in Uploads : outcome[u] = "completed" /\ pending[u] = {}
  /\ result # NULL
  /\ Len(result.questions) = 2
  /\ \A i \in 1..2 : Has(result.questions[i], "execution_output")

\* C13: when an upload completes, result holds the extracted questions in the
\* extracted order; every question that qualified for execution carries, next
\* to its own fields, the output its own executeCode request returned, in
\* whatever order the requests returned; every other question is as extracted.
C13_OwnOutput ==
  [][\A u \in Uploads :
       Completes(u) =>
         LET doc == assignmentResult[u] IN
         /\ Len(result'.questions) = Len(doc.questions)
         /\ \A i \in 1..Len(doc.questions) :
              LET q == doc.questions[i]
                  q2 == result'.questions[i]
              IN IF i \in ExecutionSet(doc)
                   THEN /\ DOMAIN q2 = DOMAIN q \cup {"execution_output"}
                        /\ \A f \in DOMAIN q : q2[f] = q[f]
                        /\ q2.execution_output \in {executeCode(t) : t \in OutputTexts}
                        /\ i \in DOMAIN output[u] => q2.execution_output = output[u][i]
                   ELSE q2 = q]_vars

\* both questions were executed and their requests returned different outputs
C13_Witness ==
  /\ step = COMPLETED
  /\ result # NULL
  /\ Len(result.questions) = 2
  /\ \A i \in 1..2 : Has(result.questions[i], "execution_output")
  /\ result.questions[1].execution_output = "No output."
  /\ result.questions[2].execution_output = "2"

\* the question has code, and requires_execution is true or the assignment
\* is classified as coding
Qualifies(doc, q) ==
  /\ "code" \in DOMAIN q /\ q.code # ""
  /\ \/ "requires_execution" \in DOMAIN q /\ q.requires_execution
     \/ "type" \in DOMAIN doc /\ doc.type = "coding"

Qualified(doc) == {i \in 1..Len(doc.questions) : Qualifies(doc, doc.questions[i])}

\* C14: executeCode is invoked for a question exactly when the question has code
\* and (requires_execution is true or the assignment type is coding): the
\* requests dispatched on entering solving are those of the qualifying
\* questions, and on completion exactly those carry an execution_output while
\* every other question is as it was extracted.
C14_ExecutedExactlyWhenQualified ==
  [][\A u \in Uploads :
       /\ (pc[u] = "classifying" /\ pc'[u] = "solving")
            => pending'[u] = Qualified(assignmentResult[u])
       /\ (pc[u] = "classifying" /\ Completes(u))
            => Qualified(assignmentResult[u]) = {}
       /\ Completes(u) =>
            \A i \in 1..Len(assignmentResult[u].questions) :
              IF i \in Qualified(assignmentResult[u])
                THEN Has(result'.questions[i], "execution_output")
                ELSE result'.questions[i] = assignmentResult[u].questions[i]]_vars

\* a mixed assignment: the first question is executed, the second (no code) is not
C14_Witness ==
  \E u \in Uploads :
    /\ pc[u] = "solving"
    /\ assignmentResult[u] = DocMixed
    /\ pending[u] = {1}

\* invocation u ends in this step, in completed or in error
Ends(u) == outcome[u] = "none" /\ outcome'[u] # "none"

\* C15: no gateway call is retried.  An invocation of handleFileSelect calls
\* processAssignment once and executeCode at most once per question, whether
\* the calls succeed or fail; a failure sets step to error once and ends the
\* invocation for good; a later attempt is a new file selection, made from
\* idle after a reset.
C15_NoRetry ==
  /\ [](\A u \in Uploads :
          /\ requests[u].processAssignment <= 1
          /\ pc[u] \notin {"none", "done"} => requests[u].processAssignment = 1
          /\ \A i \in DOMAIN requests[u].executeCode : requests[u].executeCode[i] <= 1)
  /\ [][\A u \in Uploads :
          /\ Ends(u) =>
               /\ requests[u].processAssignment = 1
               /\ pc'[u] = "done"
               /\ outcome'[u] = "error" => step' = ERROR
          /\ pc[u] = "done" =>
               /\ pc'[u] = "done"
               /\ outcome'[u] = outcome[u]
               /\ requests'[u] = NoRequests
          /\ (pc[u] = "none" /\ pc'[u] # "none") =>
               /\ step = IDLE
               /\ u > 1 => resets >= 1]_vars

\* an upload failed, reset was invoked and a second file was selected
C15_Witness ==
  /\ outcome[1] = "error"
  /\ resets = 1
  /\ pc[2] = "extracting"
  /\ requests[2].processAssignment = 1

\* C16: reset, invoked in any state, leaves step idle, result null and the error
\* message null.
C16_ResetClears ==
  [][resets' # resets => (step' = IDLE /\ result' = NULL /\ error' = <<>>)]_vars

\* reset was invoked after the upload had failed, and nothing has happened since
C16_Witness ==
  /\ resets = 1
  /\ outcome[1] = "error"
  /\ pc[2] = "none"
  /\ step = IDLE /\ result = NULL /\ error = <<>>

\* the conditions of handleSend's guard that do not depend on the typed text
SendAcceptable == chatSession # NULL /\ ~isLoading

\* C17: a chat turn that fails appends exactly one apology message and stops,
\* the in-flight flag is cleared, and the next send is accepted: in the step
\* in which the turn fails the list grows by the apology alone, and as long as
\* that turn is the last one no turn is in flight, isLoading is false and an
\* open chat has a session.
C17_FailedTurn ==
  /\ [](lastTurn = "error" =>
          /\ ~InFlight
          /\ ~isLoading
          /\ isOpen => SendAcceptable)
  /\ [][(lastTurn # "error" /\ lastTurn' = "error") =>
          /\ InFlight
          /\ messages' = Append(messages, Apology)
          /\ turns' = turns]_vars

\* the follow-up request of a tool round failed
C17_Witness ==
  /\ lastTurn = "error"
  /\ turnChanged
  /\ isOpen
  /\ SendAcceptable
  /\ Last(messages) = Apology
  /\ IsConfirmation(messages[Len(messages) - 1])

IsUpdateCall(fc) == fc.name = ToolName
UnknownAnswer(fc) ==
  [id |-> fc.id, name |-> fc.name, response |-> [error |-> "Unknown function"]]

\* C18: a tool call whose name is not update_assignment_content leaves the
\* document unchanged and is answered with an "Unknown function" response
\* carrying its id and name, the follow-up is still sent and the turn ends
\* without an apology: the tool round changes the document exactly as its
\* update_assignment_content calls alone would, every other call has the
\* error response at its position, the synchronous block runs on to the
\* follow-up request with these responses, and a turn that ends after the
\* follow-up stream leaves the message list as it is.
C18_UnknownFunction ==
  /\ [](chatPc \in {"followSend", "followSending", "followStreaming"} =>
          /\ Len(functionResponses) = Len(toolCalls)
          /\ \A i \in 1..Len(toolCalls) :
               ~IsUpdateCall(toolCalls[i]) =>
                 functionResponses[i] = UnknownAnswer(toolCalls[i]))
  /\ [][/\ chatPc = "tools" =>
             /\ result' = ApplyCalls(result, SelectSeq(toolCalls, IsUpdateCall))
             /\ chatPc' = "confirm"
        /\ chatPc = "confirm" => chatPc' = "followSend"
        /\ chatPc = "followSend" =>
             /\ chatPc' = "followSending"
             /\ functionResponses' = functionResponses
        /\ chatPc \in SyncPoints => lastTurn' = lastTurn
        /\ (chatPc = "followStreaming" /\ lastTurn' = "ok") =>
             messages' = messages]_vars

\* the follow-up of a round with one unknown call is being streamed
C18_Witness ==
  /\ chatPc = "followStreaming"
  /\ toolCalls = <<CallUnknown>>
  /\ functionResponses = <<UnknownAnswer(CallUnknown)>>
  /\ result = docBefore
  /\ IsConfirmation(Last(messages))
  /\ isLoading

\* a turn is in flight on a session that clearHistory has discarded
Discarded == InFlight /\ turnSession # chatSession

\* C19: after clearHistory the list is exactly one message and the session is
\* discarded, the next send uses a new session seeded from the document, and
\* an in-flight turn of the discarded session does not add to or alter the
\* cleared list: clearHistory leaves the single "History cleared" message and
\* a session that did not exist before, seeded from the current document, and
\* no step of a turn that still runs on the discarded session changes the
\* message list (a change of storageKey, which reloads the list, aside).
C19_ClearHistory ==
  [][/\ clears' # clears =>
          /\ messages' = <<HistoryCleared>>
          /\ chatSession' # chatSession
          /\ chatSession' = [id |-> sessions', context |-> result]
          /\ sessions' = sessions + 1
     /\ (Discarded /\ clears' = clears /\ storageKey' = storageKey) =>
          messages' = messages]_vars

\* C20: the chat session is created lazily and is persistent: no session is
\* started while the panel has never been opened, a session is started only
\* for an open panel that has none, from the document as it is then, and an
\* existing session is replaced by nothing but clearHistory; a send runs on
\* the session that exists, and closing and reopening start no session.
C20_LazyPersistentSession ==
  /\ [](/\ sessions = 0 => chatSession = NULL
        /\ chatSession # NULL => chatSession.id = sessions
        /\ isOpen => chatSession # NULL)
  /\ [][/\ sessions' # sessions =>
             /\ sessions' = sessions + 1
             /\ isOpen'
             /\ chatSession = NULL \/ clears' # clears
             /\ chatSession' = [id |-> sessions', context |-> result']
        /\ chatSession' # chatSession => sessions' # sessions
        /\ turns' # turns =>
             /\ chatSession # NULL
             /\ turnSession' = chatSession
             /\ chatSession' = chatSession
        /\ (isOpen' # isOpen /\ chatSession # NULL) =>
             chatSession' = chatSession]_vars

\* after a finished turn, a title edit and a close the first session is still
\* the session
C20_Witness ==
  /\ sessions = 1
  /\ chatSession # NULL
  /\ chatSession.id = 1
  /\ chatSession.context # result
  /\ ~isOpen
  /\ lastTurn = "ok"
  /\ edits = 1

\* ---------------------------------------------------------------- local storage

\* C21: the transcript round-trips through local storage: whenever the chat
\* has yielded with a non-empty message list, the entry stored under the key
\* of the normalized title is the text of that list and parses to it, and the
\* effects of the first render for a document whose key has a stored
\* transcript make the message list exactly that transcript and leave the
\* entry as it was.
C21_TranscriptRoundTrip ==
  /\ []((Yielded /\ messages # <<>>) =>
          /\ storageKey = StorageKeyOf(result.title)
          /\ storageKey \in DOMAIN localStorage
          /\ localStorage[storageKey] = JSONstringify(messages)
          /\ JSONparse(localStorage[storageKey]) = messages)
  /\ [][storageKey = <<>> =>
          \A t \in Transcripts :
            LET key == StorageKeyOf(result.title) IN
            (key \in DOMAIN localStorage /\ localStorage[key] = JSONstringify(t)) =>
              /\ messages' = t
              /\ storageKey' = key
              /\ localStorage'[key] = localStorage[key]]_vars

\* a restored transcript with a system message has been continued by a send
C21_Witness ==
  /\ Len(messages) = Len(TranscriptTools) + 1
  /\ SubSeq(messages, 1, Len(TranscriptTools)) = TranscriptTools
  /\ Last(messages) = UserMessage(<<"h">>)
  /\ localStorage[storageKey] = JSONstringify(messages)
  /\ storageKey = StorageKeyOf(TitleLab)

\* ---------------------------------------------------------------- editor

\* the step is an invocation of editor callback op
Invokes(op) == edits' # edits /\ editorCall'.op = op

\* s without its i-th element
Without(s, i) == SubSeq(s, 1, i - 1) \o SubSeq(s, i + 1, Len(s))

\* C22 (as stated): a confirmed delete of question q removes exactly q, with
\* its assets: every other question remains, unchanged and in the same
\* relative order, the count drops by one, and nothing else of the document
\* changes.
C22_DeleteExactlyOne ==
  [][Invokes("deleteQuestion") =>
       /\ result'.questions = Without(result.questions, editorCall'.index)
       /\ Len(result'.questions) = Len(result.questions) - 1
       /\ result' = [questions |-> result'.questions] @@ result]_vars

\* C26: updateQuestionField(id, field, value) sets exactly that field of the
\* question with that id to value: every other field of that question, every
\* other question, the title, the type and the question order are unchanged,
\* and nothing changes when no question has that id.
C26_FieldEditFrame ==
  [][Invokes("updateQuestionField") =>
       LET c == editorCall'
           old == result.questions
           new == result'.questions
       IN /\ DOMAIN result' = DOMAIN result
          /\ \A f \in DOMAIN result \ {"questions"} : result'[f] = result[f]
          /\ Len(new) = Len(old)
          /\ \A j \in 1..Len(old) :
               IF old[j].id = c.id
                 THEN /\ DOMAIN new[j] = DOMAIN old[j] \cup {c.field}
                      /\ new[j][c.field] = c.value
                      /\ \A f \in DOMAIN old[j] \ {c.field} : new[j][f] = old[j][f]
                 ELSE new[j] = old[j]
          /\ c.id \notin RenderedIds => result' = result]_vars

\* two edits have set the language of the second question, which had none, and
\* nothing else
C26_Witness ==
  /\ edits = 2
  /\ editorCall # NULL
  /\ editorCall.op = "updateQuestionField"
  /\ editorCall.field = "language"
  /\ Len(result.questions) = 2
  /\ result.questions[2] = [language |-> "edited", execution_output |-> "2"] @@ QLoop
  /\ result.questions[1] = [execution_output |-> "2"] @@ QPrint
  /\ result.title = TitleLab

\* the questions that show the copied indicator
Showing == {i \in 1..Len(result.questions) : ShowsCopied(i)}
\* the step is a click on a copy button
Copies == Len(timers') = Len(timers) + 1

C24_ClearsAfterOwnDelay ==
  /\ [](timers = <<>> => copiedId = <<>>)
  /\ [][(copiedId # <<>> /\ copiedId' # copiedId) =>
          \/ Copies
          \/ copiedId' = <<>> /\ Len(timers) = 1]_vars

\* ---------------------------------------------------------------- uploads and reset

\* the step is a file selection
Selects(u) == pc[u] = "none" /\ pc'[u] # "none"
\* u is the most recently selected file
Latest(u) == pc[u] # "none" /\ \A v \in Uploads : v > u => pc[v] = "none"

\* C25 (as stated): the result shown is that of the most recently selected
\* file: a file selection clears the previous result, and the result is set
\* only by the upload of the latest selection, under every interleaving of
\* reset, selections and gateway completions.
C25_ResultOfLatestUpload ==
  [][/\ \A u \in Uploads : Selects(u) => result' = NULL
     /\ result' # result =>
          \/ result' = NULL
          \/ \E u \in Uploads : Completes(u) /\ Latest(u)]_vars

\* C27 (as stated): in every reachable state the error message is non-null
\* exactly when step is error.
C27_ErrorIffErrorStep == (error # <<>>) <=> (step = ERROR)

\* C28 (as stated): once reset has returned step to idle, step, result and
\* error stay idle, null and null until a file is selected: the completions
\* of an abandoned upload change none of them.
C28_IdleUntilSelection ==
  [][(resets >= 1 /\ step = IDLE /\ result = NULL /\ error = <<>>
        /\ ~\E u \in Uploads : Selects(u))
       => (step' = IDLE /\ result' = NULL /\ error' = <<>>)]_vars

\* C29: provided each gateway call eventually resolves or rejects, every
\* started upload eventually ends in completed or error, and step does not
\* stay extracting, classifying or solving for ever.
C29_UploadTerminates ==
  /\ \A u \in Uploads : (pc[u] # "none") ~> (outcome[u] \in {"completed", "error"})
  /\ (step \in Working) ~> (step \notin Working)

\* an upload abandoned by reset and the upload selected after it have both ended
C29_Witness ==
  /\ resets = 1
  /\ outcome[1] = "completed"
  /\ outcome[2] = "error"
  /\ step \in {COMPLETED, ERROR}

\* ---------------------------------------------------------------- requests of a turn

\* the order of handleSend's positions within one turn; a streaming request is
\* issued on entering "sending" and on entering "followSending"
Position(p) ==
  CASE p = "sending" -> 1 [] p = "streaming" -> 2 [] p = "tools" -> 3
    [] p = "confirm" -> 4 [] p = "followSend" -> 5 [] p = "followSending" -> 6
    [] p = "followStreaming" -> 7 [] OTHER -> 8

\* C30: one user turn issues at most two streaming requests, the user message
\* and at most one follow-up that carries one function response per collected
\* tool call, in order; the tool calls of the follow-up response are not
\* applied to the document and trigger no further request.  Within a turn
\* handleSend only moves forward through its positions, so each request is
\* issued once; after the follow-up has been sent the turn does nothing but
\* stream and end, and no step of it changes the document.
C30_AtMostTwoRequests ==
  /\ [](chatPc \in {"followSend", "followSending", "followStreaming"} =>
          /\ toolCalls # <<>>
          /\ Len(functionResponses) = Len(toolCalls)
          /\ \A i \in 1..Len(toolCalls) :
               /\ functionResponses[i].id = toolCalls[i].id
               /\ functionResponses[i].name = toolCalls[i].name)
  /\ [][/\ turns' = turns => Position(chatPc') >= Position(chatPc)
        /\ (chatPc' = "sending" /\ chatPc # "sending") => turns' = turns + 1
        /\ (chatPc = "streaming" /\ chatPc' = "tools") => toolCalls' = calls
        /\ (chatPc' = "followSending" /\ chatPc # "followSending") =>
             /\ chatPc = "followSend"
             /\ functionResponses' = functionResponses
        /\ chatPc \in {"followSending", "followStreaming"} =>
             /\ chatPc' \in {"followSending", "followStreaming", "idle"}
             /\ result' = result \/ edits' = edits + 1]_vars

\* the follow-up response of a round with an unknown call carried an
\* update_assignment_content call, which has not been applied
C30_Witness ==
  /\ chatPc = "followStreaming"
  /\ toolCalls = <<CallUnknown>>
  /\ calls = <<CallVerify>>
  /\ result = docBefore
  /\ result.title = TitleLab
  /\ edits = 0

====
